---- MODULE Spec2Model ----
(***************************************************************************)
(* latex-flatten (src/src/main.rs): flattening of a LaTeX project tree     *)
(* into one directory.  Text is modelled at the character level: a string  *)
(* is a sequence of one-character strings, a file's content a sequence of  *)
(* bytes (one-character strings, or BadByte for a byte that is not valid   *)
(* UTF-8).                                                                 *)
(***************************************************************************)
EXTENDS Integers, Sequences, FiniteSets, TLC

VARIABLES
    \* replace_imports on one line
    line, caps, out, out2, lpc,
    \* flatten_path on two files of one project
    args_path, rel1, rel2, path1, path2, flat1, flat2, ppc,
    \* process_content on one file
    fname, content, new_content, via, new_content_nl, fpc,
    \* main: the directory-to-directory run
    walk, done, out_dir, pc

lineVars == <<line, caps, out, out2, lpc>>
pathVars == <<args_path, rel1, rel2, path1, path2, flat1, flat2, ppc>>
fileVars == <<fname, content, new_content, via, new_content_nl, fpc>>
runVars == <<walk, done, out_dir, pc>>
vars == <<lineVars, pathVars, fileVars, runVars>>

(***************************************************************************)
(* Characters and literals                                                 *)
(***************************************************************************)
BS == "\\"
NL == "\n"
CR == "\r"
BadByte == "0xFF"

Lower == {"a","b","c","d","e","f","g","h","i","j","k","l","m",
          "n","o","p","q","r","s","t","u","v","w","x","y","z"}
Upper == {"A","B","C","D","E","F","G","H","I","J","K","L","M",
          "N","O","P","Q","R","S","T","U","V","W","X","Y","Z"}
Digit == {"0","1","2","3","4","5","6","7","8","9"}
\* \w of the regex, on the ASCII part of the alphabet
WordChars == Lower \cup Upper \cup Digit \cup {"_"}

Lit_input == <<"i","n","p","u","t">>
Lit_include == <<"i","n","c","l","u","d","e">>
Lit_graphics == <<"g","r","a","p","h","i","c","s">>
Lit_includegraphics == Lit_include \o Lit_graphics
Lit_bibliography == <<"b","i","b","l","i","o","g","r","a","p","h","y">>
Lit_tex == <<"t","e","x">>
\* the delimiter of the specification
Delimiter == <<"_","_">>

(***************************************************************************)
(* Sequence helpers                                                        *)
(***************************************************************************)
RECURSIVE FirstOf(_, _, _)
\* the least j >= i with s[j] = c, 0 when there is none
FirstOf(s, i, c) ==
    IF i > Len(s) THEN 0
    ELSE IF s[i] = c THEN i
    ELSE FirstOf(s, i + 1, c)

RECURSIVE Flatten(_)
\* the concatenation of a sequence of sequences
Flatten(ss) == IF ss = <<>> THEN <<>> ELSE Head(ss) \o Flatten(Tail(ss))

RECURSIVE JoinWith(_, _)
\* [T]::join(sep)
JoinWith(ss, sep) ==
    IF ss = <<>> THEN <<>>
    ELSE IF Len(ss) = 1 THEN ss[1]
    ELSE ss[1] \o sep \o JoinWith(Tail(ss), sep)

HasLit(s, i, lit) ==
    /\ i + Len(lit) - 1 <= Len(s)
    /\ SubSeq(s, i, i + Len(lit) - 1) = lit

RECURSIVE WordRun(_, _)
\* the number of word characters of s from position i on
WordRun(s, i) ==
    IF i <= Len(s) /\ s[i] \in WordChars THEN 1 + WordRun(s, i + 1) ELSE 0

\* The regex of replace_imports (main.rs:159),
\*   \\(input|include|includegraphics|bibliography\w*)(\[[^]]*\])?\{([^}]*)\}
\* with the leftmost-first semantics of the regex crate: the alternatives are
\* tried in the order written, the word run after bibliography and the
\* optional group are greedy and give back what the rest of the pattern needs.
NoMatch == [start |-> 0]

\* group 1: the alternatives in the order written; the fourth is followed by \w*
Alternatives == <<Lit_input, Lit_include, Lit_includegraphics, Lit_bibliography>>

\* a pattern whose every alternative is followed by \w*
CmdEndsAnyTail(s, i, k) ==
    IF ~HasLit(s, i, Alternatives[k]) THEN <<>>
    ELSE LET e == i + Len(Alternatives[k])
             w == WordRun(s, e)
         IN [n \in 1..(w + 1) |-> e + w - (n - 1)]

\* the positions right after group 1 when alternative k matches from i, in
\* the order the matcher tries them (\w* greedy: the longest first)
CmdEnds(s, i, k) ==
    IF ~HasLit(s, i, Alternatives[k]) THEN <<>>
    ELSE LET e == i + Len(Alternatives[k])
             w == WordRun(s, e)
         IN IF k = 4 THEN [n \in 1..(w + 1) |-> e + w - (n - 1)] ELSE <<e>>

AllCmdEnds(s, i) == Flatten([k \in 1..Len(Alternatives) |-> CmdEnds(s, i, k)])

\* group 2, (\[[^]]*\])?: the positions right after it from j, with the
\* group first (greedy) and without it second
OptEnds(s, j) ==
    LET close == FirstOf(s, j + 1, "]")
    IN IF j <= Len(s) /\ s[j] = "[" /\ close # 0 THEN <<close + 1, j>> ELSE <<j>>

\* \{([^}]*)\} from j: the position of the closing brace, 0 when it fails
BraceEnd(s, j) ==
    IF j <= Len(s) /\ s[j] = "{" THEN FirstOf(s, j + 1, "}") ELSE 0

\* the attempts at position i after the backslash, in order: <<after group 1, after group 2>>
Attempts(s, i) ==
    LET ce == AllCmdEnds(s, i + 1)
    IN Flatten([n \in 1..Len(ce) |->
                  LET oe == OptEnds(s, ce[n])
                  IN [m \in 1..Len(oe) |-> <<ce[n], oe[m]>>]])

\* the match that starts at position i: the first attempt that succeeds
MatchAt(s, i) ==
    IF i > Len(s) \/ s[i] # BS THEN NoMatch
    ELSE LET at == Attempts(s, i)
             ends == [n \in 1..Len(at) |-> BraceEnd(s, at[n][2])]
             ok == {n \in 1..Len(at) : ends[n] # 0}
         IN IF ok = {} THEN NoMatch
            ELSE LET n == CHOOSE x \in ok : \A y \in ok : x <= y
                     c == at[n][1]
                     o == at[n][2]
                     e == ends[n]
                 IN [start |-> i, end |-> e,
                     cmd |-> SubSeq(s, i + 1, c - 1),
                     opts |-> SubSeq(s, c, o - 1),
                     path |-> SubSeq(s, o + 1, e - 1)]

RECURSIVE CapturesIter(_, _)
\* Regex::captures_iter from position pos: the successive non-overlapping
\* matches, each the leftmost one at or after the end of the one before
CapturesIter(s, pos) ==
    IF pos > Len(s) THEN <<>>
    ELSE LET m == MatchAt(s, pos)
         IN IF m.start = 0 THEN CapturesIter(s, pos + 1)
            ELSE <<m>> \o CapturesIter(s, m.end + 1)

RECURSIVE ReplaceChar(_, _, _)
\* str::replace(c, to) for a one-character pattern
ReplaceChar(s, c, to) ==
    IF s = <<>> THEN <<>>
    ELSE (IF Head(s) = c THEN to ELSE <<Head(s)>>) \o ReplaceChar(Tail(s), c, to)

\* the replacement string of main.rs:170
ArgDelim == <<"_","_">>

\* str::replacen(c, to, 1): the first separator only
FlattenFirstOnly(p) ==
    LET i == FirstOf(p, 1, "/")
    IN IF i = 0 THEN p
       ELSE SubSeq(p, 1, i - 1) \o ArgDelim \o SubSeq(p, i + 1, Len(p))

\* the closure's flattened path, main.rs:170
FlattenArg(p) == ReplaceChar(p, "/", ArgDelim)

\* a closure that flattens the options as well as the path
ReplacementWholeMatch(cap) ==
    <<BS>> \o cap.cmd \o FlattenArg(cap.opts) \o <<"{">> \o FlattenArg(cap.path) \o <<"}">>

\* a closure whose format string doubles the backslash
ReplacementTwoBackslashes(cap) ==
    <<BS, BS>> \o cap.cmd \o cap.opts \o <<"{">> \o FlattenArg(cap.path) \o <<"}">>

\* the closure of replace_all: format!("\\{}{}{{{}}}", group 1, group 2 or "", flattened group 3)
Replacement(cap) ==
    <<BS>> \o cap.cmd \o cap.opts \o <<"{">> \o FlattenArg(cap.path) \o <<"}">>

RECURSIVE Assemble(_, _, _)
\* Regex::replace_all: the text between the matches copied, each match
\* replaced by the closure's result
Assemble(s, cs, last) ==
    IF cs = <<>> THEN SubSeq(s, last + 1, Len(s))
    ELSE SubSeq(s, last + 1, Head(cs).start - 1) \o Replacement(Head(cs))
         \o Assemble(s, Tail(cs), Head(cs).end)

replace_imports(s) == Assemble(s, CapturesIter(s, 1), 0)

(***************************************************************************)
(* replace_imports on one line: the lines tried                            *)
(***************************************************************************)
\* the most fragments a tried line is made of
MaxFrags == 4

LineFrags == {
    <<BS>> \o Lit_input, <<BS>> \o Lit_include, Lit_graphics,
    <<BS>> \o Lit_bibliography, <<BS, "I">> \o Tail(Lit_input),
    <<"x">>, <<"_">>, <<"[">>, <<"]">>, <<"{">>, <<"}">>, <<"/">>,
    <<"{", "x", "/", "y", "}">> }

\* the lines of the tests of main.rs, of the examples of the specification,
\* and lines with a command inside the options or the path of another one
ExtraLines == {
    <<"\\","i","n","p","u","t","{","c","o","n","t","e","n","t","/","b","a","c","k","g","r","o","u","n","d","}">>,
    <<"\\","i","n","c","l","u","d","e","{","c","o","n","t","e","n","t","/","b","a","c","k","g","r","o","u","n","d","}">>,
    <<"\\","b","i","b","l","i","o","g","r","a","p","h","y","{","b","i","b","l","i","o","g","r","a","p","h","y","/","r","e","f","e","r","e","n","c","e","s","}">>,
    <<"\\","b","i","b","l","i","o","g","r","a","p","h","y","S","{","b","i","b","l","i","o","g","r","a","p","h","y","/","r","e","f","e","r","e","n","c","e","s","}">>,
    <<"\\","i","n","c","l","u","d","e","g","r","a","p","h","i","c","s","{","f","i","g","u","r","e","s","/","s","e","a","r","c","h","_","p","r","o","c","e","s","s",".","p","d","f","}">>,
    <<"\\","i","n","c","l","u","d","e","g","r","a","p","h","i","c","s","[","w","i","d","t","h","=","0",".","8","\\","l","i","n","e","w","i","d","t","h","]","{","f","i","g","u","r","e","s","/","s","e","a","r","c","h","_","p","r","o","c","e","s","s",".","p","d","f","}">>,
    <<"\\","i","n","p","u","t","{","a","/","b","}","\\","i","n","c","l","u","d","e","g","r","a","p","h","i","c","s","{","c","/","d",".","p","n","g","}">>,
    <<"\\","b","i","b","l","i","o","g","r","a","p","h","y","s","t","y","l","e","{","x","/","y","}">>,
    <<"\\","i","n","p","u","t","x","{","x","/","y","}">>,
    <<"\\","I","N","P","U","T","{","x","/","y","}">>,
    <<"\\","i","n","p","u","t","[","\\","i","n","p","u","t","{","x","/","y","}","]","{","x","/","y","}">>,
    <<"\\","i","n","p","u","t","{","\\","i","n","c","l","u","d","e","[","x","/","y","]","{","x","/","y","}","}">>,
    <<"\\","i","n","p","u","t","[","\\","i","n","c","l","u","d","e","{","a","/","b","}","]","{","\\","i","n","p","u","t","{","c","/","d","}","}">>,
    <<"\\","i","n","p","u","t","{","a","_","_","b","/","c","}">>,
    <<"\\","i","n","p","u","t","{","_","/","_","}">>,
    <<"\\","i","n","p","u","t","{","a","_","/","b","}">>,
    <<"\\","i","n","c","l","u","d","e","g","r","a","p","h","i","c","s","[","a","/","b","]","{","c","/","d","/","e","}"," ","\\","i","n","p","u","t"," ","{","x","/","y","}"," ","\\","i","n","c","l","u","d","e","{","}">> }

RECURSIVE FragLines(_)
\* the concatenations of at most n fragments
FragLines(n) ==
    IF n = 0 THEN {<<>>}
    ELSE {<<>>} \cup {l \o f : l \in FragLines(n - 1), f \in LineFrags}

Lines == FragLines(MaxFrags) \cup ExtraLines

IdleLine ==
    /\ line = <<>> /\ caps = <<>> /\ out = <<>> /\ out2 = <<>> /\ lpc = "idle"
IdlePath ==
    /\ args_path = <<>> /\ rel1 = <<>> /\ rel2 = <<>> /\ path1 = <<>> /\ path2 = <<>>
    /\ flat1 = <<>> /\ flat2 = <<>> /\ ppc = "idle"
IdleFile ==
    /\ fname = <<>> /\ content = <<>> /\ new_content = <<>> /\ via = "none"
    /\ new_content_nl = <<>> /\ fpc = "idle"
IdleRun ==
    /\ walk = <<>> /\ done = 0 /\ out_dir = <<>> /\ pc = "idle"

InitLine ==
    /\ line \in Lines
    /\ caps = <<>> /\ out = <<>> /\ out2 = <<>> /\ lpc = "start"
    /\ IdlePath /\ IdleFile /\ IdleRun

\* replace_imports(line), with the matches the regex found
Rewrite ==
    /\ lpc = "start"
    /\ caps' = CapturesIter(line, 1)
    /\ out' = replace_imports(line)
    /\ lpc' = "once"
    /\ UNCHANGED <<line, out2, pathVars, fileVars, runVars>>

\* replace_imports applied to its own result
RewriteAgain ==
    /\ lpc = "once"
    /\ out2' = replace_imports(out)
    /\ lpc' = "twice"
    /\ UNCHANGED <<line, caps, out, pathVars, fileVars, runVars>>

NextLine == Rewrite \/ RewriteAgain

SpecLine == InitLine /\ [][NextLine]_vars

(***************************************************************************)
(* The grammar of a reference command as the specification states it:      *)
(*   reference := '\' command [ options ] '{' path '}'                     *)
(* A piece of text is a reference when it can be cut into these parts.     *)
(***************************************************************************)
\* command := "input" | "include" | "includegraphics" | "bibliography" IDENT_TAIL
Recognized(tok) ==
    \/ tok \in {Lit_input, Lit_include, Lit_includegraphics}
    \/ /\ Len(tok) >= Len(Lit_bibliography)
       /\ SubSeq(tok, 1, Len(Lit_bibliography)) = Lit_bibliography
       /\ \A n \in (Len(Lit_bibliography) + 1)..Len(tok) : tok[n] \in WordChars

\* options := '[' NON_CLOSE_BRACKET* ']', or absent
IsOptions(t) ==
    \/ t = <<>>
    \/ /\ Len(t) >= 2 /\ t[1] = "[" /\ t[Len(t)] = "]"
       /\ \A n \in 2..(Len(t) - 1) : t[n] # "]"

\* path := NON_CLOSE_BRACE*
IsPathArg(t) == \A n \in 1..Len(t) : t[n] # "}"

\* the cuts <<c, o>> that make s[i..e] a reference: the command is
\* s[i+1..c], the options s[c+1..o], the path s[o+2..e-1]
RefSplits(s, i, e) ==
    IF ~(1 <= i /\ i < e /\ e <= Len(s) /\ s[i] = BS /\ s[e] = "}") THEN {}
    ELSE {co \in {n \in (i + 1)..(e - 2) : s[n + 1] \in {"[", "{"}}
                 \X {n \in (i + 1)..(e - 2) : s[n + 1] = "{"} :
            /\ co[1] <= co[2]
            /\ Recognized(SubSeq(s, i + 1, co[1]))
            /\ IsOptions(SubSeq(s, co[1] + 1, co[2]))
            /\ IsPathArg(SubSeq(s, co[2] + 2, e - 1))}

RefEnds(s, i) == {e \in (i + 1)..Len(s) : RefSplits(s, i, e) # {}}

RECURSIVE Occurrences(_, _)
\* the non-overlapping references of s from position pos, left to right:
\* [start, open (the brace that opens the path), end]
Occurrences(s, pos) ==
    IF pos > Len(s) THEN <<>>
    ELSE IF s[pos] # BS \/ RefEnds(s, pos) = {} THEN Occurrences(s, pos + 1)
    ELSE LET e == CHOOSE x \in RefEnds(s, pos) : \A y \in RefEnds(s, pos) : x <= y
             co == CHOOSE x \in RefSplits(s, pos, e) : TRUE
         IN <<[start |-> pos, open |-> co[2] + 1, end |-> e]>>
            \o Occurrences(s, e + 1)

\* s with every "/" inside the path argument of one of the occurrences
\* replaced by "__", and nothing else changed
SlashesFlattened(s, occ) ==
    Flatten([p \in 1..Len(s) |->
        IF s[p] = "/" /\ \E n \in 1..Len(occ) : occ[n].open < p /\ p < occ[n].end
        THEN Delimiter ELSE <<s[p]>>])

Count(s, c) == Cardinality({n \in 1..Len(s) : s[n] = c})

RECURSIVE CountDelim(_)
\* the number of non-overlapping occurrences of "__" in s, left to right
CountDelim(s) ==
    IF Len(s) < 2 THEN 0
    ELSE IF s[1] = "_" /\ s[2] = "_" THEN 1 + CountDelim(SubSeq(s, 3, Len(s)))
    ELSE CountDelim(Tail(s))

\* the token between the backslash at i and the following "[" or "{"
BracketsAfter(s, i) == {j \in (i + 1)..Len(s) : s[j] \in {"[", "{"}}
HasToken(s, i) == BracketsAfter(s, i) # {}
TokenEnd(s, i) ==
    (CHOOSE j \in BracketsAfter(s, i) : \A k \in BracketsAfter(s, i) : j <= k) - 1
Token(s, i) == SubSeq(s, i + 1, TokenEnd(s, i))

\* the text from position j on starts with [options]{path} or {path}
ArgumentsAt(s, j) ==
    \E o \in {n \in (j - 1)..(Len(s) - 2) : s[n + 1] = "{"} :
        /\ IsOptions(SubSeq(s, j, o))
        /\ \E e \in (o + 2)..Len(s) : s[e] = "}"

\* the backslash at i starts a complete command with a recognized name
RecognizedCommandAt(s, i) ==
    /\ HasToken(s, i)
    /\ Recognized(Token(s, i))
    /\ ArgumentsAt(s, TokenEnd(s, i) + 1)

CapStarts == {caps[n].start : n \in 1..Len(caps)}
InsideCap(i) == \E n \in 1..Len(caps) : caps[n].start < i /\ i <= caps[n].end

TwoCommands == <<"\\","i","n","p","u","t","{","a","/","b","}","\\","i","n","c","l","u","d","e","g","r","a","p","h","i","c","s","{","c","/","d",".","p","n","g","}">>
TwoCommandsOut == <<"\\","i","n","p","u","t","{","a","_","_","b","}","\\","i","n","c","l","u","d","e","g","r","a","p","h","i","c","s","{","c","_","_","d",".","p","n","g","}">>
WithOptions == <<"\\","i","n","c","l","u","d","e","g","r","a","p","h","i","c","s","[","w","i","d","t","h","=","0",".","8","\\","l","i","n","e","w","i","d","t","h","]","{","f","i","g","u","r","e","s","/","s","e","a","r","c","h","_","p","r","o","c","e","s","s",".","p","d","f","}">>
WithOptionsOut == <<"\\","i","n","c","l","u","d","e","g","r","a","p","h","i","c","s","[","w","i","d","t","h","=","0",".","8","\\","l","i","n","e","w","i","d","t","h","]","{","f","i","g","u","r","e","s","_","_","s","e","a","r","c","h","_","p","r","o","c","e","s","s",".","p","d","f","}">>
BibStyle == <<"\\","b","i","b","l","i","o","g","r","a","p","h","y","s","t","y","l","e","{","x","/","y","}">>
BibStyleOut == <<"\\","b","i","b","l","i","o","g","r","a","p","h","y","s","t","y","l","e","{","x","_","_","y","}">>
BibCustom == <<"\\","b","i","b","l","i","o","g","r","a","p","h","y","S","{","b","i","b","l","i","o","g","r","a","p","h","y","/","r","e","f","e","r","e","n","c","e","s","}">>
BibCustomOut == <<"\\","b","i","b","l","i","o","g","r","a","p","h","y","S","{","b","i","b","l","i","o","g","r","a","p","h","y","_","_","r","e","f","e","r","e","n","c","e","s","}">>
InputX == <<"\\","i","n","p","u","t","x","{","x","/","y","}">>
InputUpper == <<"\\","I","N","P","U","T","{","x","/","y","}">>

\* C2: replace_imports finds every non-overlapping reference of the line,
\* left to right, and its result is the line with every "/" inside the path
\* arguments of these references replaced by "__": command names, options
\* and the text outside the references are unchanged, and every reference of
\* a line is rewritten.
C2_ReplaceImports ==
    lpc # "start" =>
        LET occ == Occurrences(line, 1)
        IN /\ Len(caps) = Len(occ)
           /\ \A n \in 1..Len(occ) :
                /\ caps[n].start = occ[n].start
                /\ caps[n].end = occ[n].end
                /\ caps[n].path = SubSeq(line, occ[n].open + 1, occ[n].end - 1)
           /\ out = SlashesFlattened(line, occ)
           /\ (line = TwoCommands => out = TwoCommandsOut)
           /\ (line = WithOptions => out = WithOptionsOut)

\* two references on one line, with options and a path of two separators, rewritten
C2_Witness ==
    /\ lpc = "once"
    /\ Len(caps) = 2
    /\ caps[1].opts # <<>>
    /\ Count(caps[1].path, "/") = 2
    /\ out # line

\* C5: a complete command that is not inside an earlier reference is
\* rewritten exactly when the token between its backslash and the following
\* "[" or "{" is input, include, includegraphics, or bibliography followed by
\* word characters; a line no backslash of which is followed by such a token
\* is returned unchanged (\inputx{x/y}, \INPUT{x/y}).
C5_CommandNames ==
    lpc # "start" =>
        /\ \A i \in 1..Len(line) :
             (line[i] = BS /\ ~InsideCap(i)) =>
                 ((i \in CapStarts) <=> RecognizedCommandAt(line, i))
        /\ ((\A i \in 1..Len(line) :
                line[i] = BS => ~(HasToken(line, i) /\ Recognized(Token(line, i))))
            => out = line)
        /\ (line = BibStyle => out = BibStyleOut)
        /\ (line = BibCustom => out = BibCustomOut)
        /\ (line \in {InputX, InputUpper} => out = line)

\* \inputx{x/y}: a recognized name followed by a word character, left unchanged
C5_Witness == lpc = "once" /\ line = InputX /\ out = InputX /\ caps = <<>>

\* the path arguments of the references of the result
OutPaths ==
    LET occ == Occurrences(out, 1)
    IN [n \in 1..Len(occ) |-> SubSeq(out, occ[n].open + 1, occ[n].end - 1)]

\* C6 as stated: the rewritten path argument of a path with k "/" holds
\* exactly k occurrences of "__" and no "/".
C6_AsStated ==
    lpc # "start" =>
        /\ Len(OutPaths) = Len(caps)
        /\ \A n \in 1..Len(caps) :
             /\ Count(OutPaths[n], "/") = 0
             /\ CountDelim(OutPaths[n]) = Count(caps[n].path, "/")

\* C6, amended: the rewritten path argument holds no "/", and when the
\* path argument holds k "/" and no "_" it holds exactly k occurrences of "__".
C6_DelimiterCount ==
    lpc # "start" =>
        /\ Len(OutPaths) = Len(caps)
        /\ \A n \in 1..Len(caps) :
             /\ Count(OutPaths[n], "/") = 0
             /\ (Count(caps[n].path, "_") = 0 =>
                    CountDelim(OutPaths[n]) = Count(caps[n].path, "/"))

\* a path argument with two separators and no underscore, rewritten
C6_Witness ==
    /\ lpc = "once"
    /\ \E n \in 1..Len(caps) :
         /\ Count(caps[n].path, "/") = 2
         /\ Count(caps[n].path, "_") = 0
         /\ CountDelim(OutPaths[n]) = 2

\* C10: replace_imports is idempotent: applied to its own result it
\* returns that result.
C10_Idempotent == lpc = "twice" => out2 = out

\* a line with a command inside the path of another one, changed by the first pass
C10_Witness ==
    /\ lpc = "twice"
    /\ out # line
    /\ \E n \in 1..Len(caps) :
         /\ \E p \in 1..Len(caps[n].path) : caps[n].path[p] = BS
         /\ \E p \in 1..Len(caps[n].opts) : caps[n].opts[p] = BS

(***************************************************************************)
(* flatten_path                                                            *)
(***************************************************************************)
RECURSIVE SplitOn(_, _)
\* the pieces of s between the occurrences of c, empty pieces included
SplitOn(s, c) ==
    LET i == FirstOf(s, 1, c)
    IN IF i = 0 THEN <<s>>
       ELSE <<SubSeq(s, 1, i - 1)>> \o SplitOn(SubSeq(s, i + 1, Len(s)), c)

\* Path::components, each component as its as_os_str(): a leading "/" is
\* the root component, repeated separators and "." are dropped, except a
\* "." that starts a relative path
Components(p) ==
    LET parts == SplitOn(p, "/")
        rooted == p # <<>> /\ p[1] = "/"
        keep == {n \in 1..Len(parts) :
                    /\ parts[n] # <<>>
                    /\ (parts[n] = <<".">> => (n = 1 /\ ~rooted))}
        Nth[n \in 0..Len(parts)] ==
            IF n = 0 THEN <<>>
            ELSE IF n \in keep THEN Nth[n - 1] \o <<parts[n]>> ELSE Nth[n - 1]
    IN (IF rooted THEN << <<"/">> >> ELSE <<>>) \o Nth[Len(parts)]

\* Iterator::skip(n)
Skip(cs, n) == SubSeq(cs, n + 1, Len(cs))

\* a join with a single underscore
JoinDelimSingle == <<"_">>

\* the separator of the join of main.rs:135
JoinDelim == <<"_","_">>

\* flatten_path that counts the root's components without the root directory
flatten_path_unrooted(path, root) ==
    LET root_components == Len(SelectSeq(Components(root), LAMBDA c : c # <<"/">>))
    IN JoinWith(Skip(Components(path), root_components), JoinDelim)

\* flatten_path(path, args), args.path being root
flatten_path(path, root) ==
    LET root_components == Len(Components(root))
    IN JoinWith(Skip(Components(path), root_components), JoinDelim)

\* Path::join of a directory path and a relative path of segments
PathJoin(dir, segs) ==
    IF segs = <<>> THEN dir
    ELSE (IF dir # <<>> /\ dir[Len(dir)] = "/" THEN dir ELSE dir \o <<"/">>)
         \o JoinWith(segs, <<"/">>)

\* the deepest a tried file lies below the root
MaxDepth == 2

\* the roots tried: /proj, ., proj/, ./a/./b, /
Roots == { <<"/","p","r","o","j">>, <<".">>, <<"p","r","o","j","/">>, <<".","/","a","/",".","/","b">>, <<"/">> }

\* the file and directory names tried
SegNames == { <<"a">>, <<"b">>, <<"a","_">>, <<"_","b">>, <<"a","_","b">>,
              <<"a","_","_","b">> }

Seg_content == <<"c","o","n","t","e","n","t">>
Seg_background_tex == <<"b","a","c","k","g","r","o","u","n","d",".","t","e","x">>
Root_proj == <<"/","p","r","o","j">>
Flat_content_background_tex == <<"c","o","n","t","e","n","t","_","_","b","a","c","k","g","r","o","u","n","d",".","t","e","x">>

RECURSIVE SegSeqs(_)
\* the sequences of 1..n names
SegSeqs(n) ==
    IF n = 0 THEN {}
    ELSE {<<x>> : x \in SegNames}
         \cup {r \o <<x>> : r \in SegSeqs(n - 1), x \in SegNames}

\* the paths below the root, as segments
RelPaths == SegSeqs(MaxDepth) \cup {<<Seg_content, Seg_background_tex>>}

\* main.rs:94: WalkDir yields the root path joined with the names below it
EntryPath(root, rel) == PathJoin(root, rel)

InitPath ==
    /\ args_path \in Roots
    /\ rel1 \in RelPaths /\ rel2 \in RelPaths
    /\ path1 = EntryPath(args_path, rel1)
    /\ path2 = EntryPath(args_path, rel2)
    /\ flat1 = <<>> /\ flat2 = <<>> /\ ppc = "start"
    /\ IdleLine /\ IdleFile /\ IdleRun

FlattenFirst ==
    /\ ppc = "start"
    /\ flat1' = flatten_path(path1, args_path)
    /\ ppc' = "one"
    /\ UNCHANGED <<args_path, rel1, rel2, path1, path2, flat2, lineVars, fileVars, runVars>>

FlattenSecond ==
    /\ ppc = "one"
    /\ flat2' = flatten_path(path2, args_path)
    /\ ppc' = "two"
    /\ UNCHANGED <<args_path, rel1, rel2, path1, path2, flat1, lineVars, fileVars, runVars>>

NextPath == FlattenFirst \/ FlattenSecond

SpecPath == InitPath /\ [][NextPath]_vars

\* the number of characters of segs[1..k] joined with a two-character delimiter
SegOffset(segs, k) ==
    LET Off[n \in 0..k] == IF n = 0 THEN 0 ELSE Off[n - 1] + Len(segs[n]) + 2
    IN Off[k]

\* f is the segments in their order with "__" between them
IsJoinOf(f, segs) ==
    /\ Len(f) = SegOffset(segs, Len(segs)) - 2
    /\ \A k \in 1..Len(segs) :
         /\ SubSeq(f, SegOffset(segs, k - 1) + 1, SegOffset(segs, k) - 2) = segs[k]
         /\ k < Len(segs) =>
              SubSeq(f, SegOffset(segs, k) - 1, SegOffset(segs, k)) = Delimiter

\* C1: for a file strictly below the root, flatten_path is the segments of
\* the file's path below the root, in their order, joined with "__"
\* (/proj and /proj/content/background.tex give content__background.tex).
C1_FlattenPath ==
    ppc # "start" =>
        /\ IsJoinOf(flat1, rel1)
        /\ ((args_path = Root_proj /\ rel1 = <<Seg_content, Seg_background_tex>>)
              => flat1 = Flat_content_background_tex)

\* /proj and /proj/content/background.tex flattened
C1_Witness ==
    /\ ppc = "one"
    /\ args_path = Root_proj
    /\ rel1 = <<Seg_content, Seg_background_tex>>
    /\ flat1 = Flat_content_background_tex

HasDelimiter(seg) == \E n \in 1..(Len(seg) - 1) : seg[n] = "_" /\ seg[n + 1] = "_"
EdgeUnderscore(seg) == seg[1] = "_" \/ seg[Len(seg)] = "_"
AllSegs(rel, P(_)) == \A n \in 1..Len(rel) : P(rel[n])
Plain(seg) == seg # <<>> /\ ~HasDelimiter(seg)
Strict(seg) == seg # <<>> /\ ~HasDelimiter(seg) /\ ~EdgeUnderscore(seg)

\* C9 as stated: two distinct paths below one root whose segments are
\* non-empty and do not contain "__" have different flat names.
C9_AsStated ==
    (ppc = "two" /\ rel1 # rel2 /\ AllSegs(rel1, Plain) /\ AllSegs(rel2, Plain))
        => flat1 # flat2

\* C9, amended: two distinct paths below one root whose segments are
\* non-empty, do not contain "__" and neither begin nor end with "_" have
\* different flat names.
C9_Injective ==
    (ppc = "two" /\ rel1 # rel2 /\ AllSegs(rel1, Strict) /\ AllSegs(rel2, Strict))
        => flat1 # flat2

\* the one-segment path a_b and the two-segment path a/b, flattened to different names
C9_Witness ==
    /\ ppc = "two"
    /\ rel1 = << <<"a","_","b">> >> /\ rel2 = << <<"a">>, <<"b">> >>
    /\ flat1 # flat2

(***************************************************************************)
(* process_content                                                         *)
(***************************************************************************)
None == [some |-> FALSE]
Some(x) == [some |-> TRUE, val |-> x]

\* Path::file_name: the last component, when it is a normal one
FileNameOf(p) ==
    LET cs == Components(p)
    IN IF cs = <<>> \/ cs[Len(cs)] \in {<<"/">>, <<".">>, <<".", ".">>} THEN None
       ELSE Some(cs[Len(cs)])

LastDot(name) ==
    IF FirstOf(name, 1, ".") = 0 THEN 0
    ELSE CHOOSE n \in 1..Len(name) :
            name[n] = "." /\ \A m \in (n + 1)..Len(name) : name[m] # "."

\* an extension that is whatever follows the last dot of the name
ExtensionAfterLastDot(p) ==
    LET fn == FileNameOf(p)
        dot == LastDot(fn.val)
    IN IF ~fn.some THEN None
       ELSE IF dot = 0 THEN None
       ELSE Some(SubSeq(fn.val, dot + 1, Len(fn.val)))

\* Path::extension: what follows the last dot of the file name; none when
\* the name has no dot, or only the one it begins with
Extension(p) ==
    LET fn == FileNameOf(p)
        dot == LastDot(fn.val)
    IN IF ~fn.some THEN None
       ELSE IF dot <= 1 THEN None
       ELSE Some(SubSeq(fn.val, dot + 1, Len(fn.val)))

\* main.rs:141: entry.path().extension().map_or(false, |ext| ext == "tex")
IsTex(p) == LET ext == Extension(p) IN ext.some /\ ext.val = Lit_tex

\* read_to_string succeeds on valid UTF-8 only
ValidUtf8(bytes) == \A n \in 1..Len(bytes) : bytes[n] # BadByte

RECURSIVE SplitInclusive(_, _)
\* str::split_inclusive(c): every piece but the last ends with c, and there
\* is no empty last piece
SplitInclusive(s, c) ==
    LET i == FirstOf(s, 1, c)
    IN IF s = <<>> THEN <<>>
       ELSE IF i = 0 THEN <<s>>
       ELSE <<SubSeq(s, 1, i)>> \o SplitInclusive(SubSeq(s, i + 1, Len(s)), c)

\* the map of str::lines: a final "\n" is stripped, and then a final "\r";
\* a "\r" that no "\n" follows stays in its line (the standard library
\* before this rule stripped a "\r" that ends the text as well)
LinesMap(piece) ==
    IF piece = <<>> \/ piece[Len(piece)] # NL THEN piece
    ELSE LET l == SubSeq(piece, 1, Len(piece) - 1)
         IN IF l = <<>> \/ l[Len(l)] # CR THEN l
            ELSE SubSeq(l, 1, Len(l) - 1)

\* lines as str::split('\n') would give them: an empty last line after a final "\n"
lines_by_split(s) ==
    LET ps == SplitOn(s, NL) IN [n \in 1..Len(ps) |-> ps[n]]

\* str::lines, main.rs:152
lines(s) ==
    LET ps == SplitInclusive(s, NL) IN [n \in 1..Len(ps) |-> LinesMap(ps[n])]

\* the branch process_content takes for the entry
Branch(p) == IF IsTex(p) THEN "rewrite" ELSE "copy"

\* process_content(entry) for an entry whose content can be read
process_content(p, bytes) ==
    IF ~IsTex(p) THEN bytes
    ELSE LET ls == lines(bytes)
             new_lines == [n \in 1..Len(ls) |-> replace_imports(ls[n])]
         IN JoinWith(new_lines, <<NL>>)

\* the most chunks a tried content is made of
MaxChunks == 4

Cmd_ab == <<"\\","i","n","p","u","t","{","a","/","b","}">>
Cmd_a == <<"\\","i","n","p","u","t","{","a","/">>
Cmd_b == <<"b","}">>

DocChunks == { Cmd_ab, Cmd_a, Cmd_b, <<NL>>, <<CR>>, <<"x">>, <<BadByte>> }

RECURSIVE Docs(_)
\* the concatenations of at most n chunks
Docs(n) ==
    IF n = 0 THEN {<<>>}
    ELSE {<<>>} \cup {d \o c : d \in Docs(n - 1), c \in DocChunks}

Contents == Docs(MaxChunks)

Name_dot_tex == <<".","t","e","x">>

\* the files tried: p/a.tex, p/.tex, p/..tex, p/a.TEX, p/a.png, p/tex,
\* p/a.tex.bak, p/d.tex/b, p/a.
FilePaths == { <<"p","/","a",".","t","e","x">>,
    <<"p","/",".","t","e","x">>,
    <<"p","/",".",".","t","e","x">>,
    <<"p","/","a",".","T","E","X">>,
    <<"p","/","a",".","p","n","g">>,
    <<"p","/","t","e","x">>,
    <<"p","/","a",".","t","e","x",".","b","a","k">>,
    <<"p","/","d",".","t","e","x","/","b">>,
    <<"p","/","a",".">> }

InitFile ==
    /\ fname \in FilePaths
    /\ content \in Contents
    /\ new_content = <<>> /\ via = "none" /\ new_content_nl = <<>> /\ fpc = "start"
    /\ IdleLine /\ IdlePath /\ IdleRun

\* process_content returns
ProcessContent ==
    /\ fpc = "start"
    /\ IsTex(fname) => ValidUtf8(content)
    /\ via' = Branch(fname)
    /\ new_content' = process_content(fname, content)
    /\ fpc' = "done"
    /\ UNCHANGED <<fname, content, new_content_nl, lineVars, pathVars, runVars>>

\* main.rs:150: read_to_string(..).unwrap() panics on a .tex file that is not UTF-8
ProcessContentPanic ==
    /\ fpc = "start"
    /\ IsTex(fname) /\ ~ValidUtf8(content)
    /\ via' = Branch(fname)
    /\ fpc' = "panicked"
    /\ UNCHANGED <<fname, content, new_content, new_content_nl, lineVars, pathVars, runVars>>

\* process_content on the same file with one "\n" appended to its content
ProcessContentNewline ==
    /\ fpc = "done"
    /\ new_content_nl' = process_content(fname, content \o <<NL>>)
    /\ fpc' = "compared"
    /\ UNCHANGED <<fname, content, new_content, via, lineVars, pathVars, runVars>>

NextFile == ProcessContent \/ ProcessContentPanic \/ ProcessContentNewline

SpecFile == InitFile /\ [][NextFile]_vars

\* the file's name: what follows the last "/" of its path
NameOfPath(p) ==
    LET sl == {n \in 1..Len(p) : p[n] = "/"}
    IN SubSeq(p, (IF sl = {} THEN 0 ELSE CHOOSE n \in sl : \A m \in sl : m <= n) + 1, Len(p))

EndsWith(s, suffix) ==
    Len(s) >= Len(suffix) /\ SubSeq(s, Len(s) - Len(suffix) + 1, Len(s)) = suffix

\* a line with the characters inside the path arguments of its references removed
MaskLine(s) ==
    LET occ == Occurrences(s, 1)
    IN Flatten([p \in 1..Len(s) |->
          IF \E n \in 1..Len(occ) : occ[n].open < p /\ p < occ[n].end
          THEN <<>> ELSE <<s[p]>>])

\* a content with the path arguments of the references of its lines removed,
\* and every other byte, the line terminators included, kept
MaskDoc(d) ==
    LET ps == SplitOn(d, NL)
    IN JoinWith([n \in 1..Len(ps) |-> MaskLine(ps[n])], <<NL>>)

\* C3: the content written for a .tex file differs from the content read
\* inside the path arguments of the recognized commands only.
C3_OnlyPathArguments ==
    (fpc # "start" /\ fpc # "panicked" /\ via = "rewrite")
        => MaskDoc(new_content) = MaskDoc(content)

\* C4 as stated: a file goes through the rewriter exactly when its name
\* ends in .tex, and any other file's bytes are returned unchanged.
C4_AsStated ==
    fpc # "start" =>
        /\ (via = "rewrite") <=> EndsWith(NameOfPath(fname), Name_dot_tex)
        /\ (via = "copy" => fpc # "panicked" /\ new_content = content)

\* C4, amended: a file goes through the rewriter exactly when its name ends
\* in .tex and is longer than these four characters; any other file's bytes,
\* valid text or not, are returned unchanged.
C4_Dispatch ==
    fpc # "start" =>
        /\ (via = "rewrite") <=>
               (EndsWith(NameOfPath(fname), Name_dot_tex) /\ Len(NameOfPath(fname)) > 4)
        /\ (via = "copy" => fpc # "panicked" /\ new_content = content)

\* a file that is not a .tex file, holding a command and a byte that is no
\* text, copied unchanged
C4_Witness ==
    /\ fpc = "done" /\ via = "copy"
    /\ ~ValidUtf8(content)
    /\ Occurrences(content, 1) # <<>>
    /\ new_content = content

\* the lines of a text: the pieces that end at each "\n", without it and
\* without a "\r" right before it, and the piece after the last "\n" when it
\* is not empty
TextLines(d) ==
    LET ps == SplitOn(d, NL)
        n == IF ps[Len(ps)] = <<>> THEN Len(ps) - 1 ELSE Len(ps)
    IN [k \in 1..n |->
          IF k < Len(ps) /\ ps[k] # <<>> /\ ps[k][Len(ps[k])] = CR
          THEN SubSeq(ps[k], 1, Len(ps[k]) - 1) ELSE ps[k]]

\* each line with the "/" of its own references flattened, joined with "\n"
LineByLine(d) ==
    LET ls == TextLines(d)
    IN JoinWith([k \in 1..Len(ls) |-> SlashesFlattened(ls[k], Occurrences(ls[k], 1))],
                <<NL>>)

SplitCommand == Cmd_a \o <<NL>> \o Cmd_b

\* C7 as stated, its last part: a non-empty .tex content that does not end
\* in "\n" gives the same output as the content followed by one "\n".
C7_AsStated ==
    (fpc = "compared" /\ via = "rewrite" /\ content # <<>>
        /\ content[Len(content)] # NL)
        => new_content_nl = new_content

\* C7, amended: the output for a .tex content is its lines, each rewritten
\* by the line transform on its own, joined with one "\n"; a command split
\* over two lines is not rewritten; a non-empty content that ends neither in
\* "\n" nor in "\r" gives the same output as the content followed by one "\n".
C7_LineByLine ==
    (fpc \in {"done", "compared"} /\ via = "rewrite") =>
        /\ new_content = LineByLine(content)
        /\ (content = SplitCommand => new_content = content)
        /\ (fpc = "compared" /\ content # <<>>
              /\ content[Len(content)] \notin {NL, CR})
             => new_content_nl = new_content

\* a command split over two lines next to a whole one: only the whole one
\* is rewritten, and a final "\n" changes nothing
C7_Witness ==
    /\ fpc = "compared" /\ via = "rewrite"
    /\ content = Cmd_a \o <<NL>> \o Cmd_b \o Cmd_ab
    /\ new_content # content
    /\ Count(new_content, "/") = 1
    /\ new_content_nl = new_content

(***************************************************************************)
(* main: the directory-to-directory run.  walk is the files WalkDir        *)
(* yields, in its order; out_dir maps the names in the output directory,   *)
(* which main requires to be empty or creates, to their bytes.             *)
(***************************************************************************)
\* the most files a tried project holds
MaxFiles == 3

\* the files tried, as segments below the root: a/b.tex, a__b.tex,
\* a_/b.tex, a/_b.tex, c.png
RunFiles == { <<<<"a">>, <<"b",".","t","e","x">>>>,
    <<<<"a","_","_","b",".","t","e","x">>>>,
    <<<<"a","_">>, <<"b",".","t","e","x">>>>,
    <<<<"a">>, <<"_","b",".","t","e","x">>>>,
    <<<<"c",".","p","n","g">>>> }

RunContents == { Cmd_ab \o <<NL>>, <<"x">>, <<BadByte>> }

RunRoots == { <<"p","r","o","j">>, <<"/","p","r","o","j","/">> }

RECURSIVE Walks(_)
\* the enumerations of at most n files with different paths
Walks(n) ==
    IF n = 0 THEN {<<>>}
    ELSE {<<>>} \cup
         {w \o <<[rel |-> r, content |-> c]>> :
            w \in Walks(n - 1), r \in RunFiles, c \in RunContents}

DistinctPaths(w) == \A i, j \in 1..Len(w) : i # j => w[i].rel # w[j].rel

Projects == {w \in Walks(MaxFiles) : DistinctPaths(w)}

Init ==
    /\ args_path \in RunRoots
    /\ walk \in Projects
    /\ done = 0 /\ out_dir = <<>> /\ pc = "walking"
    /\ rel1 = <<>> /\ rel2 = <<>> /\ path1 = <<>> /\ path2 = <<>>
    /\ flat1 = <<>> /\ flat2 = <<>> /\ ppc = "idle"
    /\ IdleLine /\ IdleFile

\* File::create that fails when the file exists (create_new)
WriteFileKeepFirst(dir, name, bytes) ==
    [f \in DOMAIN dir \cup {name} |-> IF f \in DOMAIN dir THEN dir[f] ELSE bytes]

\* File::create(&new_path) and write_all(&new_content): the file is created,
\* or truncated when it exists, and holds the bytes
WriteFile(dir, name, bytes) ==
    [f \in DOMAIN dir \cup {name} |-> IF f = name THEN bytes ELSE dir[f]]

EntryOf(n) == EntryPath(args_path, walk[n].rel)

\* process_entry for the next file of the traversal
process_entry ==
    /\ pc = "walking" /\ done < Len(walk)
    /\ LET e == walk[done + 1]
           p == EntryOf(done + 1)
       IN /\ IsTex(p) => ValidUtf8(e.content)
          /\ out_dir' = WriteFile(out_dir, flatten_path(p, args_path),
                                  process_content(p, e.content))
    /\ done' = done + 1
    /\ UNCHANGED <<walk, pc, lineVars, pathVars, fileVars>>

\* process_entry panics in process_content: a .tex file that is not UTF-8
process_entry_panics ==
    /\ pc = "walking" /\ done < Len(walk)
    /\ IsTex(EntryOf(done + 1)) /\ ~ValidUtf8(walk[done + 1].content)
    /\ pc' = "panicked"
    /\ UNCHANGED <<walk, done, out_dir, lineVars, pathVars, fileVars>>

\* for_each ends: main returns
Finish ==
    /\ pc = "walking" /\ done = Len(walk)
    /\ pc' = "done"
    /\ UNCHANGED <<walk, done, out_dir, lineVars, pathVars, fileVars>>

Next == process_entry \/ process_entry_panics \/ Finish

Spec == Init /\ [][Next]_vars

\* the content the run writes for an enumerated file
Transformed(e) ==
    LET name == e.rel[Len(e.rel)]
    IN IF EndsWith(name, Name_dot_tex) /\ Len(name) > 4
       THEN LineByLine(e.content) ELSE e.content

\* the enumerated files whose flat name is f
FilesNamed(f) == {n \in 1..Len(walk) : IsJoinOf(f, walk[n].rel)}

\* C8: after a run that ends normally the output directory holds exactly one
\* file per flat name of the enumerated files, and each holds the transformed
\* content of the last enumerated file with that flat name.
C8_LastWriteWins ==
    pc = "done" =>
        /\ \A f \in DOMAIN out_dir : FilesNamed(f) # {}
        /\ \A n \in 1..Len(walk) : \E f \in DOMAIN out_dir : n \in FilesNamed(f)
        /\ \A f \in DOMAIN out_dir :
             LET last == CHOOSE n \in FilesNamed(f) : \A m \in FilesNamed(f) : m <= n
             IN out_dir[f] = Transformed(walk[last])

\* a run that ended normally on three files, two of which have one flat name
\* and different contents: two files in the output
C8_Witness ==
    /\ pc = "done" /\ Len(walk) = 3
    /\ Cardinality(DOMAIN out_dir) = 2
    /\ \E f \in DOMAIN out_dir :
         \E n, m \in FilesNamed(f) :
            n < m /\ Transformed(walk[n]) # Transformed(walk[m])
                  /\ out_dir[f] = Transformed(walk[m])

====
